---------------------------- MODULE Spec2Model ----------------------------
(***************************************************************************)
(* Model of backend/app/circuit_solver.py: the hole canonicalizer          *)
(* (hole_to_node), the connectivity resolver (build_node_map) and the      *)
(* netlist serializer (generate_spice_netlist).                            *)
(*                                                                         *)
(* A Python str is modelled as a sequence of one-character strings, so     *)
(* that slicing, concatenation and number formatting are computed as the   *)
(* code computes them.  A dict is a function whose DOMAIN is its key set.  *)
(* A Python tuple/list x is a sequence; x[i] in Python is x[i+1] here.     *)
(***************************************************************************)
EXTENDS Integers, Sequences, FiniteSets, TLC

VARIABLES
    components,   \* argument of generate_spice_netlist
    wires,        \* argument of build_node_map / generate_spice_netlist
    grounds,      \* argument of build_node_map / generate_spice_netlist
    pc,           \* position in the code
    nodemap,      \* dict  bus -> NodeID
    counter,      \* next provisional id
    pass,         \* number of the running full scan, 1..max_passes
    wi,           \* index (1-based) of the wire the scan handles next
    flags,        \* key set of the dict flags
    counts,       \* per-type display counters, list of 8 ints
    remap,        \* dict provisional id -> final node number
    newnode,      \* next final node number
    ci,           \* index (1-based) of the component rendered next
    result        \* the netlist text built so far

vars == <<components, wires, grounds, pc, nodemap, counter, pass, wi,
          flags, counts, remap, newnode, ci, result>>

-----------------------------------------------------------------------------
(* Bounds of the model *)

MaxWires == 3

MaxGrounds == 2

MaxNetGrounds == 1

MaxComponents == 2

MaxNetWires == 2

MaxTagComponents == 3

-----------------------------------------------------------------------------
(* Characters and strings *)

Ord(c) ==
    CASE c = "+" -> 43 [] c = "-" -> 45
      [] c = "0" -> 48 [] c = "1" -> 49 [] c = "2" -> 50 [] c = "3" -> 51
      [] c = "4" -> 52 [] c = "5" -> 53 [] c = "6" -> 54 [] c = "7" -> 55
      [] c = "8" -> 56 [] c = "9" -> 57
      [] c = "A" -> 65 [] c = "B" -> 66 [] c = "C" -> 67 [] c = "D" -> 68
      [] c = "E" -> 69 [] c = "F" -> 70 [] c = "G" -> 71 [] c = "H" -> 72
      [] c = "I" -> 73 [] c = "J" -> 74 [] c = "K" -> 75 [] c = "U" -> 85

\* hole[1:]
Slice1(s) == IF Len(s) = 0 THEN <<>> ELSE Tail(s)

\* hole[:2]
Prefix2(s) == IF Len(s) <= 2 THEN s ELSE SubSeq(s, 1, 2)

-----------------------------------------------------------------------------
(* hole_to_node *)

hole_to_node(hole) ==
    IF hole = <<>> THEN <<>>
    ELSE LET pref == hole[1] IN
         IF Ord("A") <= Ord(pref) /\ Ord(pref) < Ord("F")
            THEN <<"A">> \o Slice1(hole)
         ELSE IF Ord("F") <= Ord(pref) /\ Ord(pref) < Ord("K")
            THEN <<"F">> \o Slice1(hole)
         ELSE Prefix2(hole)

-----------------------------------------------------------------------------
(* build_node_map *)

min(a, b) == IF a <= b THEN a ELSE b

max(a, b) == IF a >= b THEN a ELSE b

\* nodemap[key] = value
SetItem(nm, key, value) ==
    [k \in (DOMAIN nm) \cup {key} |-> IF k = key THEN value ELSE nm[k]]

RECURSIVE ground_init(_, _)
\* for g in grounds: nodemap[hole_to_node(g)] = 0
ground_init(nm, gs) ==
    IF gs = <<>> THEN nm
    ELSE ground_init(SetItem(nm, hole_to_node(Head(gs)), 0), Tail(gs))

max_passes_short(ws) == Len(ws) - 1

\* max_passes = len(wires) + 1
max_passes(ws) == Len(ws) + 1

merge_pair_larger_wins(id1, id2) ==
    [target_id |-> max(id1, id2), old_id |-> min(id1, id2)]

\* target_id = min(...), old_id = max(...)
merge_pair(id1, id2) ==
    [target_id |-> min(id1, id2), old_id |-> max(id1, id2)]

remap_ids_one_entry(nm, old, target) ==
    LET hit == CHOOSE k \in DOMAIN nm : nm[k] = old
    IN  [k \in DOMAIN nm |-> IF k = hit THEN target ELSE nm[k]]

remap_ids_wrong_compare(nm, old, target) ==
    [k \in DOMAIN nm |-> IF nm[k] = target THEN target ELSE nm[k]]

\* for k, v in nodemap.items(): if v == old_id: nodemap[k] = target_id
remap_ids(nm, old, target) ==
    [k \in DOMAIN nm |-> IF nm[k] = old THEN target ELSE nm[k]]

wire_step_no_merge(nm, ctr, wire) ==
    LET feet == wire[3]
        node1 == hole_to_node(feet[1])
        node2 == hole_to_node(feet[2])
    IN  IF node1 \notin DOMAIN nm /\ node2 \notin DOMAIN nm
           THEN [nodemap |-> SetItem(SetItem(nm, node1, ctr), node2, ctr),
                 counter |-> ctr + 1]
        ELSE IF node1 \in DOMAIN nm /\ node2 \notin DOMAIN nm
           THEN [nodemap |-> SetItem(nm, node2, nm[node1]), counter |-> ctr]
        ELSE IF node2 \in DOMAIN nm /\ node1 \notin DOMAIN nm
           THEN [nodemap |-> SetItem(nm, node1, nm[node2]), counter |-> ctr]
        ELSE [nodemap |-> nm, counter |-> ctr]

wire_step_merge_endpoints(nm, ctr, wire) ==
    LET feet == wire[3]
        node1 == hole_to_node(feet[1])
        node2 == hole_to_node(feet[2])
    IN  IF node1 \notin DOMAIN nm /\ node2 \notin DOMAIN nm
           THEN [nodemap |-> SetItem(SetItem(nm, node1, ctr), node2, ctr),
                 counter |-> ctr + 1]
        ELSE IF node1 \in DOMAIN nm /\ node2 \notin DOMAIN nm
           THEN [nodemap |-> SetItem(nm, node2, nm[node1]), counter |-> ctr]
        ELSE IF node2 \in DOMAIN nm /\ node1 \notin DOMAIN nm
           THEN [nodemap |-> SetItem(nm, node1, nm[node2]), counter |-> ctr]
        ELSE IF nm[node1] # nm[node2]
           THEN LET m == merge_pair(nm[node1], nm[node2])
                IN  [nodemap |-> SetItem(SetItem(nm, node1, m.target_id),
                                         node2, m.target_id),
                     counter |-> ctr]
        ELSE [nodemap |-> nm, counter |-> ctr]

wire_step_no_increment(nm, ctr, wire) ==
    LET feet == wire[3]
        node1 == hole_to_node(feet[1])
        node2 == hole_to_node(feet[2])
    IN  IF node1 \notin DOMAIN nm /\ node2 \notin DOMAIN nm
           THEN [nodemap |-> SetItem(SetItem(nm, node1, ctr), node2, ctr),
                 counter |-> ctr]
        ELSE IF node1 \in DOMAIN nm /\ node2 \notin DOMAIN nm
           THEN [nodemap |-> SetItem(nm, node2, nm[node1]), counter |-> ctr]
        ELSE IF node2 \in DOMAIN nm /\ node1 \notin DOMAIN nm
           THEN [nodemap |-> SetItem(nm, node1, nm[node2]), counter |-> ctr]
        ELSE IF nm[node1] # nm[node2]
           THEN LET m == merge_pair(nm[node1], nm[node2])
                IN  [nodemap |-> remap_ids(nm, m.old_id, m.target_id),
                     counter |-> ctr]
        ELSE [nodemap |-> nm, counter |-> ctr]

\* The body of "for wire in wires": the new (nodemap, counter).
wire_step(nm, ctr, wire) ==
    LET feet == wire[3]
        node1 == hole_to_node(feet[1])
        node2 == hole_to_node(feet[2])
    IN  IF node1 \notin DOMAIN nm /\ node2 \notin DOMAIN nm
           THEN [nodemap |-> SetItem(SetItem(nm, node1, ctr), node2, ctr),
                 counter |-> ctr + 1]
        ELSE IF node1 \in DOMAIN nm /\ node2 \notin DOMAIN nm
           THEN [nodemap |-> SetItem(nm, node2, nm[node1]), counter |-> ctr]
        ELSE IF node2 \in DOMAIN nm /\ node1 \notin DOMAIN nm
           THEN [nodemap |-> SetItem(nm, node1, nm[node2]), counter |-> ctr]
        ELSE IF nm[node1] # nm[node2]
           THEN LET m == merge_pair(nm[node1], nm[node2])
                IN  [nodemap |-> remap_ids(nm, m.old_id, m.target_id),
                     counter |-> ctr]
        ELSE [nodemap |-> nm, counter |-> ctr]

RECURSIVE scan_wires(_, _, _)
\* One full scan "for wire in wires" from (nm, ctr).
scan_wires(nm, ctr, ws) ==
    IF ws = <<>> THEN [nodemap |-> nm, counter |-> ctr]
    ELSE LET r == wire_step(nm, ctr, Head(ws))
         IN  scan_wires(r.nodemap, r.counter, Tail(ws))

RECURSIVE run_passes(_, _, _, _)
\* "for _ in range(n)" of full scans.
run_passes(nm, ctr, ws, n) ==
    IF n <= 0 THEN [nodemap |-> nm, counter |-> ctr]
    ELSE LET r == scan_wires(nm, ctr, ws)
         IN  run_passes(r.nodemap, r.counter, ws, n - 1)

\* build_node_map as a function of its arguments.
build_node_map(ws, gs) ==
    run_passes(ground_init(<<>>, gs), 1, ws, max_passes(ws))

-----------------------------------------------------------------------------
(* generate_spice_netlist *)

DigitChars == <<"0", "1", "2", "3", "4", "5", "6", "7", "8", "9">>

RECURSIVE str(_)
\* str(n) / f"{n}" for an int n >= 0
str(n) ==
    IF n < 10 THEN <<DigitChars[n + 1]>>
    ELSE str(n \div 10) \o <<DigitChars[(n % 10) + 1]>>

RECURSIVE zfill(_, _)
zfill(s, width) == IF Len(s) >= width THEN s ELSE zfill(<<"0">> \o s, width)

\* f"{n:04d}" for an int n >= 0
format_04d(n) == zfill(str(n), 4)

\* for one foot of lines 125-131: the new (nodemap, counter, flags)
map_foot_flag_always(nm, ctr, fl, node) ==
    IF node \in DOMAIN nm
       THEN [nodemap |-> nm, counter |-> ctr, flags |-> fl \cup {node}]
    ELSE [nodemap |-> SetItem(nm, node, ctr), counter |-> ctr + 1,
          flags |-> fl \cup {node}]

map_foot_no_increment(nm, ctr, fl, node) ==
    IF node \in DOMAIN nm
       THEN [nodemap |-> nm, counter |-> ctr, flags |-> fl \cup {node}]
    ELSE [nodemap |-> SetItem(nm, node, ctr), counter |-> ctr, flags |-> fl]

map_foot(nm, ctr, fl, node) ==
    IF node \in DOMAIN nm
       THEN [nodemap |-> nm, counter |-> ctr, flags |-> fl \cup {node}]
    ELSE [nodemap |-> SetItem(nm, node, ctr), counter |-> ctr + 1, flags |-> fl]

RECURSIVE map_feet(_, _, _, _)
\* for foot in feet (lines 125-131)
map_feet(nm, ctr, fl, feet) ==
    IF feet = <<>> THEN [nodemap |-> nm, counter |-> ctr, flags |-> fl]
    ELSE LET r == map_foot(nm, ctr, fl, hole_to_node(Head(feet)))
         IN  map_feet(r.nodemap, r.counter, r.flags, Tail(feet))

RECURSIVE map_legs(_, _, _, _)
\* for component in components (lines 123-131)
map_legs(nm, ctr, fl, comps) ==
    IF comps = <<>> THEN [nodemap |-> nm, counter |-> ctr, flags |-> fl]
    ELSE LET r == map_feet(nm, ctr, fl, Head(comps)[3])
         IN  map_legs(r.nodemap, r.counter, r.flags, Tail(comps))

id_to_suffix ==
    [t \in (-1)..7 |->
        CASE t = -1 -> <<"V">>
          [] t = 0 -> <<"w", "i", "r", "e">>
          [] t = 1 -> <<"R">>
          [] t = 2 -> <<"C">>
          [] t = 3 -> <<"I">>
          [] t = 4 -> <<"M", "O", "S", "T">>
          [] t = 5 -> <<"C", "I", "R", "T">>
          [] t = 6 -> <<"L", "E", "D">>
          [] t = 7 -> <<"I", "C">>]

\* id_to_suffix.get(comp_id, "U")
prefix_of(comp_id) ==
    IF comp_id \in DOMAIN id_to_suffix THEN id_to_suffix[comp_id] ELSE <<"U">>

\* counts[comp_id] += 1, for 0 <= comp_id < len(counts)
bump_counts(cnt, comp_id) ==
    IF comp_id >= 0 THEN [cnt EXCEPT ![comp_id + 1] = @ + 1] ELSE cnt

display_index_shared(cnt, comp_id) ==
    IF comp_id >= 0 THEN cnt[1] + cnt[2] + cnt[3] + cnt[4]
                         + cnt[5] + cnt[6] + cnt[7] + cnt[8]
    ELSE 1

\* idx of lines 149-153, read after the increment
display_index(cnt, comp_id) ==
    IF comp_id >= 0 THEN cnt[comp_id + 1] ELSE 1

\* f" N{final_node_id:04d}"
node_token(final_node_id) == <<" ", "N">> \o format_04d(final_node_id)

final_id_provisional(rm, nn, mapped_id) == mapped_id

\* final_node_id of lines 166-171
final_id(rm, nn, mapped_id) ==
    IF mapped_id \in DOMAIN rm THEN rm[mapped_id] ELSE nn

render_foot_ignore_flags(nm, fl, rm, nn, node) ==
    IF nm[node] = 0
       THEN [text |-> <<" ", "0">>, remap |-> rm, newnode |-> nn]
    ELSE LET mapped_id == nm[node] IN
         [text |-> node_token(final_id(rm, nn, mapped_id)),
          remap |-> IF mapped_id \in DOMAIN rm THEN rm
                    ELSE SetItem(rm, mapped_id, nn),
          newnode |-> IF mapped_id \in DOMAIN rm THEN nn ELSE nn + 1]

\* Lines 158-175 for one foot: the text appended and the new (remap, newnode).
render_foot(nm, fl, rm, nn, node) ==
    IF nm[node] = 0
       THEN [text |-> <<" ", "0">>, remap |-> rm, newnode |-> nn]
    ELSE LET mapped_id == nm[node] IN
         IF node \in fl
            THEN [text |-> node_token(final_id(rm, nn, mapped_id)),
                  remap |-> IF mapped_id \in DOMAIN rm THEN rm
                            ELSE SetItem(rm, mapped_id, nn),
                  newnode |-> IF mapped_id \in DOMAIN rm THEN nn ELSE nn + 1]
         ELSE [text |-> <<" ", "N", "C">>, remap |-> rm, newnode |-> nn]

RECURSIVE render_feet(_, _, _, _, _, _)
\* for foot in feet (lines 157-175): the line and the new (remap, newnode)
render_feet(nm, fl, rm, nn, line, feet) ==
    IF feet = <<>> THEN [line |-> line, remap |-> rm, newnode |-> nn]
    ELSE LET r == render_foot(nm, fl, rm, nn, hole_to_node(Head(feet)))
         IN  render_feet(nm, fl, r.remap, r.newnode, line \o r.text, Tail(feet))

Trailer ==
    <<".", "b", "a", "c", "k", "a", "n", "n", "o", "\n", ".", "e", "n", "d", "\n">>

-----------------------------------------------------------------------------
(* Inputs *)

\* Five holes on four buses: B1 and D1 lie on the bus A1.
Holes ==
    { <<"B","1">>, <<"D","1">>, <<"G","1">>, <<"C","2">>, <<"U","+">> }

WireOf(h1, h2) == <<0, "wire", <<h1, h2>>>>

\* The wires build_node_map is given: the path A1 - F1 - A2 - U+ over the four
\* buses, its outer links in both orientations, and one wire inside the bus A1.
WireSet ==
    { WireOf(<<"D","1">>, <<"G","1">>), WireOf(<<"G","1">>, <<"D","1">>),
      WireOf(<<"G","1">>, <<"C","2">>),
      WireOf(<<"C","2">>, <<"U","+">>), WireOf(<<"U","+">>, <<"C","2">>),
      WireOf(<<"B","1">>, <<"D","1">>) }

\* The holes build_node_map is given as grounds: one main-area hole, one rail.
GroundHoles == { <<"D","1">>, <<"U","+">> }

RECURSIVE SeqsUpTo(_, _)
SeqsUpTo(S, n) ==
    IF n = 0 THEN { <<>> }
    ELSE LET shorter == SeqsUpTo(S, n - 1)
         IN  shorter \cup { Append(s, x) : s \in shorter, x \in S }

\* The wires of the netlist inputs: a triangle over the buses A1, F1 and U+.
NetWireSet ==
    { WireOf(<<"D","1">>, <<"G","1">>), WireOf(<<"G","1">>, <<"U","+">>),
      WireOf(<<"U","+">>, <<"D","1">>) }

NetGroundHoles == { <<"G","1">>, <<"U","+">> }

SpecText == <<"1", "0", "k">>

CompOf(t, h1, h2) == <<t, "comp", <<h1, h2>>, SpecText>>

\* The resistors of the netlist inputs: across two wired buses, inside the
\* bus A1, from the never wired bus A2, and onto the rail.
ResistorSet ==
    { CompOf(1, <<"B","1">>, <<"G","1">>), CompOf(1, <<"B","1">>, <<"D","1">>),
      CompOf(1, <<"C","2">>, <<"B","1">>), CompOf(1, <<"D","1">>, <<"U","+">>) }

CompTags == { -2, -1, 1, 2, 8 }

TaggedSet == { CompOf(t, <<"B","1">>, <<"G","1">>) : t \in CompTags }

-----------------------------------------------------------------------------
(* State machine *)

InitLocals ==
    /\ pc = "start"
    /\ nodemap = <<>>
    /\ counter = 1
    /\ pass = 1
    /\ wi = 1
    /\ flags = {}
    /\ counts = [t \in 1..8 |-> 0]
    /\ remap = <<>>
    /\ newnode = 1
    /\ ci = 1
    /\ result = <<>>

InitResolver ==
    /\ wires \in SeqsUpTo(WireSet, MaxWires)
    /\ grounds \in SeqsUpTo(GroundHoles, MaxGrounds)
    /\ components = <<>>
    /\ InitLocals

\* Inputs that vary the nets: resistors, wires and grounds.
InitNodes ==
    /\ wires \in SeqsUpTo(NetWireSet, MaxNetWires)
    /\ grounds \in SeqsUpTo(NetGroundHoles, MaxNetGrounds)
    /\ components \in SeqsUpTo(ResistorSet, MaxComponents)

\* Inputs that vary the type tags.
InitTags ==
    /\ wires = << WireOf(<<"D","1">>, <<"U","+">>) >>
    /\ grounds = <<>>
    /\ components \in SeqsUpTo(TaggedSet, MaxTagComponents)

\* Two resistors on four distinct buses, one terminal of each joined by one wire.
InitScenario ==
    /\ grounds = <<>>
    /\ \E a, b, c, d \in Holes :
          /\ Cardinality({hole_to_node(a), hole_to_node(b),
                          hole_to_node(c), hole_to_node(d)}) = 4
          /\ components = << CompOf(1, a, b), CompOf(1, c, d) >>
          /\ \E x, y \in Holes :
                /\ \/ hole_to_node(x) \in {hole_to_node(a), hole_to_node(b)}
                      /\ hole_to_node(y) \in {hole_to_node(c), hole_to_node(d)}
                   \/ hole_to_node(y) \in {hole_to_node(a), hole_to_node(b)}
                      /\ hole_to_node(x) \in {hole_to_node(c), hole_to_node(d)}
                /\ wires = << WireOf(x, y) >>

Init == (InitNodes \/ InitTags \/ InitScenario) /\ InitLocals

\* Lines 61-70: nodemap = {}, counter = 1, the loop over grounds.
InitGrounds ==
    /\ pc = "start"
    /\ nodemap' = ground_init(nodemap, grounds)
    /\ pc' = IF max_passes(wires) >= 1 /\ Len(wires) > 0 THEN "wires"
             ELSE "returned"
    /\ UNCHANGED <<components, wires, grounds, counter, pass, wi,
                   flags, counts, remap, newnode, ci, result>>

\* Lines 72-98: one iteration of "for wire in wires" inside "for _ in range(max_passes)".
ProcessWire ==
    /\ pc = "wires"
    /\ LET r == wire_step(nodemap, counter, wires[wi])
       IN  /\ nodemap' = r.nodemap
           /\ counter' = r.counter
    /\ IF wi < Len(wires)
          THEN /\ wi' = wi + 1
               /\ UNCHANGED <<pass, pc>>
       ELSE IF pass < max_passes(wires)
          THEN /\ wi' = 1
               /\ pass' = pass + 1
               /\ UNCHANGED pc
       ELSE /\ pc' = "returned"
            /\ UNCHANGED <<wi, pass>>
    /\ UNCHANGED <<components, wires, grounds,
                   flags, counts, remap, newnode, ci, result>>

\* Lines 120-131: flags = {}, the loop that maps component legs to nodes.
MapLegs ==
    /\ pc = "returned"
    /\ LET r == map_legs(nodemap, counter, {}, components)
       IN  /\ nodemap' = r.nodemap
           /\ counter' = r.counter
           /\ flags' = r.flags
    /\ pc' = "render"
    /\ UNCHANGED <<components, wires, grounds, pass, wi,
                   counts, remap, newnode, ci, result>>

\* Lines 141-178: one iteration of the rendering loop "for component in components".
\* counts[comp_id] raises IndexError when comp_id >= len(counts).
RenderComponent ==
    /\ pc = "render"
    /\ ci <= Len(components)
    /\ LET component == components[ci]
           comp_id == component[1]
           feet == component[3]
           spec == component[4]
           prefix == prefix_of(comp_id)
       IN  IF comp_id >= 0 /\ comp_id >= Len(counts)
              THEN /\ pc' = "raised"
                   /\ UNCHANGED <<counts, remap, newnode, ci, result>>
           ELSE LET cnt == bump_counts(counts, comp_id)
                    idx == display_index(cnt, comp_id)
                    r == render_feet(nodemap, flags, remap, newnode,
                                     prefix \o str(idx), feet)
                IN  /\ counts' = cnt
                    /\ remap' = r.remap
                    /\ newnode' = r.newnode
                    /\ result' = result \o r.line \o <<" ">> \o spec \o <<"\n">>
                    /\ ci' = ci + 1
                    /\ UNCHANGED pc
    /\ UNCHANGED <<components, wires, grounds, nodemap, counter, pass, wi, flags>>

\* Lines 180-181: the trailer and the return.
Finish ==
    /\ pc = "render"
    /\ ci > Len(components)
    /\ result' = result \o Trailer
    /\ pc' = "done"
    /\ UNCHANGED <<components, wires, grounds, nodemap, counter, pass, wi,
                   flags, counts, remap, newnode, ci>>

NextResolver == InitGrounds \/ ProcessWire

Next == InitGrounds \/ ProcessWire \/ MapLegs \/ RenderComponent \/ Finish

\* build_node_map called on its own.
SpecResolver == InitResolver /\ [][NextResolver]_vars

\* generate_spice_netlist.
Spec == Init /\ [][Next]_vars

-----------------------------------------------------------------------------
(* Connectivity of the inputs, stated on the graph of buses *)

WireBus(i, j) == hole_to_node(wires[i][3][j])

WireBuses == { WireBus(i, j) : i \in DOMAIN wires, j \in 1..2 }

GroundBuses == { hole_to_node(grounds[i]) : i \in DOMAIN grounds }

\* The pairs of buses joined by some wire, or both grounded.
Edges ==
    { {WireBus(i, 1), WireBus(i, 2)} : i \in DOMAIN wires }
        \cup { {a, b} : a \in GroundBuses, b \in GroundBuses }

RECURSIVE ClosureOver(_, _)
ClosureOver(S, E) ==
    LET T == S \cup UNION { e \in E : e \cap S # {} }
    IN  IF T = S THEN S ELSE ClosureOver(T, E)

\* The buses reachable from S through any chain of wires or the shared ground.
Closure(S) == ClosureOver(S, Edges)

GroundReach == Closure(GroundBuses)

Ids(nm) == { nm[k] : k \in DOMAIN nm }

\* The wire at (pass, wi) finds both its buses mapped, to different ids.
MergePending ==
    /\ pc = "wires"
    /\ WireBus(wi, 1) \in DOMAIN nodemap
    /\ WireBus(wi, 2) \in DOMAIN nodemap
    /\ nodemap[WireBus(wi, 1)] # nodemap[WireBus(wi, 2)]

ReorderingsOf(ws) ==
    { [i \in 1..Len(ws) |-> ws[f[i]]] : f \in Permutations(1..Len(ws)) }

SamePartition(m1, m2) ==
    /\ DOMAIN m1 = DOMAIN m2
    /\ \A a, b \in DOMAIN m1 : (m1[a] = m1[b]) <=> (m2[a] = m2[b])

-----------------------------------------------------------------------------
(* Claims on build_node_map, checked under SpecResolver *)

\* C1: in the mapping build_node_map returns, every wire endpoint bus and
\* every ground bus is a key, and any two buses connected directly or through
\* any chain of wires (or through the shared ground) carry the same NodeID,
\* whatever the order of the wire list.
C1_ConnectedBusesShareId ==
    pc = "returned" =>
        \A b1 \in WireBuses \cup GroundBuses :
            /\ b1 \in DOMAIN nodemap
            /\ \A b2 \in Closure({b1}) :
                  b2 \in DOMAIN nodemap /\ nodemap[b1] = nodemap[b2]

\* Two wires on disjoint buses joined only by the third wire: four buses, one id.
C1_Witness ==
    /\ pc = "returned"
    /\ grounds = <<>>
    /\ Len(wires) = 3
    /\ {WireBus(1, 1), WireBus(1, 2)} \cap {WireBus(2, 1), WireBus(2, 2)} = {}
    /\ Cardinality(WireBuses) = 4
    /\ Closure({WireBus(1, 1)}) = WireBuses
    /\ \A b \in WireBuses : nodemap[b] = nodemap[WireBus(1, 1)]

\* C7: build_node_map on any reordering of the wire list yields the same
\* partition of the buses as on the list as given: two buses share an id under
\* one order exactly when they share an id under the other.
C7_OrderIndependentPartition ==
    pc = "returned" =>
        \A ws \in ReorderingsOf(wires) :
            SamePartition(nodemap, build_node_map(ws, grounds).nodemap)

\* The list starts with a three-bus chain a-b, b-c, and some reordering of the
\* list numbers a bus differently while the partition stays the same.
C7_Witness ==
    /\ pc = "returned"
    /\ Len(wires) = 3
    /\ Cardinality({WireBus(1, 1), WireBus(1, 2), WireBus(2, 2)}) = 3
    /\ WireBus(1, 2) = WireBus(2, 1)
    /\ \E ws \in ReorderingsOf(wires) :
          build_node_map(ws, grounds).nodemap # nodemap

\* C8: a wire step that finds its two buses mapped to different ids leaves
\* every bus that carried the larger id on the smaller id, leaves no entry on
\* the larger id, and leaves every other entry as it was.
C8_MergeTieBreak ==
    [][MergePending =>
         LET id1 == nodemap[WireBus(wi, 1)]
             id2 == nodemap[WireBus(wi, 2)]
             lo == IF id1 < id2 THEN id1 ELSE id2
             hi == IF id1 < id2 THEN id2 ELSE id1
         IN  /\ DOMAIN nodemap' = DOMAIN nodemap
             /\ \A k \in DOMAIN nodemap :
                   /\ nodemap[k] = hi => nodemap'[k] = lo
                   /\ nodemap'[k] # hi
                   /\ nodemap[k] # hi => nodemap'[k] = nodemap[k]
             /\ counter' = counter]_vars

\* Ids 1 and 2 were both allocated to two buses each and id 2 has been merged away.
C8_Witness ==
    /\ pc \in {"wires", "returned"}
    /\ grounds = <<>>
    /\ counter = 3
    /\ Cardinality(DOMAIN nodemap) = 4
    /\ Ids(nodemap) = {1}

\* C10: when the len(wires)+1 full scans are over the mapping is a fixed
\* point (one more full scan changes no entry and allocates no id), and every
\* wire step that merges two different ids lowers the number of distinct ids
\* in the mapping by exactly one.
C10_BoundedPassesConverge ==
    /\ [](pc = "returned" =>
            scan_wires(nodemap, counter, wires)
                = [nodemap |-> nodemap, counter |-> counter])
    /\ [][MergePending =>
            Cardinality(Ids(nodemap')) = Cardinality(Ids(nodemap)) - 1]_vars

\* The scans are over; ids 1 and 2 were allocated beside the ground id and a
\* merge has removed one of the three.
C10_Witness ==
    /\ pc = "returned"
    /\ Len(grounds) = 1
    /\ Len(wires) = 3
    /\ counter = 3
    /\ Cardinality(DOMAIN nodemap) = 4
    /\ 0 \in Ids(nodemap)
    /\ Cardinality(Ids(nodemap)) = 2

\* The first of the full scans is over.
PassOneOver == (pc = "wires" /\ pass >= 2) \/ pc = "returned"

\* After one full scan from the ground initialisation some wire of ws still
\* has its two buses on different ids, and the mapping is not the final one.
MissAfterOnePass(ws, gs) ==
    LET one == scan_wires(ground_init(<<>>, gs), 1, ws).nodemap
    IN  /\ \E i \in DOMAIN ws :
              one[hole_to_node(ws[i][3][1])] # one[hole_to_node(ws[i][3][2])]
        /\ one # build_node_map(ws, gs).nodemap

\* C11 as stated: there is a wire list and order (with some ground list) for
\* which one full scan misses a merge, i.e. after the first pass two buses
\* joined by some wire map to different ids and the mapping differs from the
\* final mapping.  The lists range over every input of the resolver, the
\* reversed chains G1-C2, D1-G1 and C2-U+, G1-C2, D1-G1 among them.
C11_Original ==
    PassOneOver =>
        \E ws \in SeqsUpTo(WireSet, MaxWires),
           gs \in SeqsUpTo(GroundHoles, MaxGrounds) :
            MissAfterOnePass(ws, gs)

\* The first pass has just ended, or the function has returned.
AfterPassOne == (pc = "wires" /\ pass = 2 /\ wi = 1) \/ pc = "returned"

\* C11 amended: a single full scan misses no merge.  Once the first pass is
\* over, for every wire list in every order, the two buses of every wire are
\* keys on one id and the step on the next wire changes nothing; the mapping
\* and the counter at the end of pass 1 are already the final ones.
C11_OnePassSuffices ==
    /\ PassOneOver =>
          \A i \in DOMAIN wires :
              /\ WireBus(i, 1) \in DOMAIN nodemap
              /\ WireBus(i, 2) \in DOMAIN nodemap
              /\ nodemap[WireBus(i, 1)] = nodemap[WireBus(i, 2)]
    /\ (PassOneOver /\ pc = "wires") =>
          wire_step(nodemap, counter, wires[wi])
              = [nodemap |-> nodemap, counter |-> counter]
    /\ AfterPassOne =>
          [nodemap |-> nodemap, counter |-> counter]
              = build_node_map(wires, grounds)

\* The second pass starts on a list whose third wire joins the disjoint buses
\* of the first two: the merge was made within pass 1.
C11_Witness ==
    /\ pc = "wires"
    /\ pass = 2
    /\ wi = 1
    /\ Len(wires) = 3
    /\ {WireBus(1, 1), WireBus(1, 2)} \cap {WireBus(2, 1), WireBus(2, 2)} = {}
    /\ Cardinality(WireBuses) = 4
    /\ Cardinality(Ids(nodemap)) = 1

-----------------------------------------------------------------------------
(* Reading the netlist text back *)

RECURSIVE Split(_, _)
\* The pieces of s between the occurrences of the character sep.
Split(s, sep) ==
    IF \E i \in 1..Len(s) : s[i] = sep
       THEN LET i == CHOOSE i \in 1..Len(s) :
                        s[i] = sep /\ \A j \in 1..(i - 1) : s[j] # sep
            IN  <<SubSeq(s, 1, i - 1)>> \o Split(SubSeq(s, i + 1, Len(s)), sep)
    ELSE <<s>>

\* The "\n"-terminated lines of a text.
LinesOf(text) ==
    LET parts == Split(text, "\n") IN SubSeq(parts, 1, Len(parts) - 1)

IsCompLine(l) == l = <<>> \/ l[1] # "."

\* The component lines of the text built so far, each as its tokens.
CompLines ==
    LET ls == SelectSeq(LinesOf(result), IsCompLine)
    IN  [k \in 1..Len(ls) |-> Split(ls[k], " ")]

IsDigit(c) == \E d \in 1..10 : DigitChars[d] = c

DigitVal(c) == (CHOOSE d \in 1..10 : DigitChars[d] = c) - 1

RECURSIVE ParseNat(_)
ParseNat(ds) ==
    IF ds = <<>> THEN 0
    ELSE 10 * ParseNat(SubSeq(ds, 1, Len(ds) - 1)) + DigitVal(ds[Len(ds)])

RECURSIVE DigitSuffix(_)
DigitSuffix(t) ==
    IF t # <<>> /\ IsDigit(t[Len(t)])
       THEN Append(DigitSuffix(SubSeq(t, 1, Len(t) - 1)), t[Len(t)])
    ELSE <<>>

\* "N" and four digits
IsNTok(t) == Len(t) = 5 /\ t[1] = "N" /\ \A i \in 2..5 : IsDigit(t[i])

NNum(t) == ParseNat(SubSeq(t, 2, Len(t)))

TokGround == <<"0">>

TokNC == <<"N", "C">>

RECURSIVE NodeToksFrom(_, _)
\* The node tokens of the component lines k.. in reading order.
NodeToksFrom(ls, k) ==
    IF k > Len(ls) THEN <<>>
    ELSE SubSeq(ls[k], 2, Len(ls[k]) - 1) \o NodeToksFrom(ls, k + 1)

FootBus(k, j) == hole_to_node(components[k][3][j])

AllTerminals ==
    { t \in (DOMAIN components) \X (1..2) : t[2] \in DOMAIN components[t[1]][3] }

\* How many component terminals stand on the bus.
Occurrences(bus) ==
    Cardinality({ t \in AllTerminals : FootBus(t[1], t[2]) = bus })

-----------------------------------------------------------------------------
(* Claims on generate_spice_netlist, checked under Spec *)

\* C2: ground dominance.  The bus of every ground hole maps to 0 from the
\* ground initialisation on, at every step; when the wire passes are over every
\* bus reachable from a grounded hole through a chain of wires maps to 0; and
\* every component terminal on such a bus is rendered as the token 0.
C2_GroundDominance ==
    LET ls == CompLines IN
    /\ pc # "start" =>
          \A b \in GroundBuses : b \in DOMAIN nodemap /\ nodemap[b] = 0
    /\ pc \notin {"start", "wires"} =>
          \A b \in GroundReach : b \in DOMAIN nodemap /\ nodemap[b] = 0
    /\ \A k \in DOMAIN ls : \A j \in DOMAIN components[k][3] :
          FootBus(k, j) \in GroundReach => ls[k][j + 1] = TokGround
    /\ pc = "done" => Len(ls) = Len(components)

\* A terminal two wires away from the grounded bus is rendered 0.
C2_Witness ==
    /\ pc = "done"
    /\ Len(grounds) = 1
    /\ \E t \in AllTerminals :
          /\ FootBus(t[1], t[2]) \in GroundReach \ GroundBuses
          /\ \A g \in GroundBuses : {g, FootBus(t[1], t[2])} \notin Edges
          /\ CompLines[t[1]][t[2] + 1] = TokGround

\* C3 as stated: every rendered terminal whose bus is the bus of no wire
\* endpoint and of no ground hole is rendered NC, also when two or more
\* component terminals stand on that bus.
C3_Original ==
    LET ls == CompLines IN
    \A k \in DOMAIN ls : \A j \in DOMAIN components[k][3] :
        FootBus(k, j) \notin WireBuses \cup GroundBuses => ls[k][j + 1] = TokNC

\* C3 amended: a terminal whose bus is the bus of no wire endpoint, of no
\* ground hole and of no other component terminal is rendered NC; a bus that
\* only component terminals introduce becomes touched exactly when a second
\* terminal stands on it, and its terminals are then rendered as an N-token.
C3_DanglingTerminal ==
    LET ls == CompLines IN
    /\ pc \in {"render", "done", "raised"} =>
          \A t \in AllTerminals :
             LET bus == FootBus(t[1], t[2]) IN
             bus \in flags <=>
                (bus \in WireBuses \cup GroundBuses \/ Occurrences(bus) >= 2)
    /\ \A k \in DOMAIN ls : \A j \in DOMAIN components[k][3] :
          FootBus(k, j) \notin WireBuses \cup GroundBuses =>
             /\ nodemap[FootBus(k, j)] >= 1
             /\ IF Occurrences(FootBus(k, j)) = 1
                   THEN ls[k][j + 1] = TokNC
                ELSE IsNTok(ls[k][j + 1])

\* One netlist with a lone dangling terminal (NC) and an unwired bus that two
\* terminals share (an N-token).
C3_Witness ==
    /\ pc = "done"
    /\ \E t \in AllTerminals :
          /\ FootBus(t[1], t[2]) \notin WireBuses \cup GroundBuses
          /\ Occurrences(FootBus(t[1], t[2])) = 1
          /\ CompLines[t[1]][t[2] + 1] = TokNC
    /\ \E t \in AllTerminals :
          /\ FootBus(t[1], t[2]) \notin WireBuses \cup GroundBuses
          /\ Occurrences(FootBus(t[1], t[2])) >= 2
          /\ IsNTok(CompLines[t[1]][t[2] + 1])

\* The N-tokens of the text number the nets densely in order of first appearance.
DenseInOrder(toks) ==
    \A p \in DOMAIN toks :
        IsNTok(toks[p]) =>
           /\ NNum(toks[p]) >= 1
           /\ \/ NNum(toks[p]) = 1
              \/ \E q \in 1..(p - 1) :
                    IsNTok(toks[q]) /\ NNum(toks[q]) = NNum(toks[p]) - 1

\* C4: every node token is 0, NC or N with four digits; reading the text in
\* order, each N-number is 1 or one more than an N-number read earlier (so the
\* numbers are exactly 1..k and first appear in the order 1, 2, ...); and two
\* terminals carry the same number exactly when their buses carry the same
\* provisional id, so k is the number of distinct rendered non-ground nets.
C4_DenseNumbering ==
    LET ls == CompLines
        toks == NodeToksFrom(ls, 1)
        shown == { t \in AllTerminals :
                      t[1] \in DOMAIN ls /\ IsNTok(ls[t[1]][t[2] + 1]) }
    IN  /\ \A p \in DOMAIN toks :
              toks[p] = TokGround \/ toks[p] = TokNC \/ IsNTok(toks[p])
        /\ DenseInOrder(toks)
        /\ \A t1, t2 \in shown :
              (NNum(ls[t1[1]][t1[2] + 1]) = NNum(ls[t2[1]][t2[2] + 1]))
                 <=> (nodemap[FootBus(t1[1], t1[2])] = nodemap[FootBus(t2[1], t2[2])])
        /\ pc = "done" => Len(ls) = Len(components) /\ newnode =
              1 + Cardinality({ nodemap[FootBus(t[1], t[2])] : t \in shown })

\* Two nets are rendered and some terminal's number differs from its provisional id.
C4_Witness ==
    /\ pc = "done"
    /\ newnode = 3
    /\ \E t \in AllTerminals :
          /\ IsNTok(CompLines[t[1]][t[2] + 1])
          /\ NNum(CompLines[t[1]][t[2] + 1]) # nodemap[FootBus(t[1], t[2])]

\* Two two-terminal resistors on four distinct buses, no grounds, and a single
\* wire that joins terminal j1 of the first to terminal j2 of the second.
ScenarioC5(j1, j2) ==
    /\ grounds = <<>>
    /\ Len(wires) = 1
    /\ Len(components) = 2
    /\ \A k \in 1..2 : components[k][1] = 1 /\ Len(components[k][3]) = 2
    /\ Cardinality({ FootBus(t[1], t[2]) : t \in AllTerminals }) = 4
    /\ {FootBus(1, j1), FootBus(2, j2)} = {WireBus(1, 1), WireBus(1, 2)}

\* C5 as stated: in the scenario the wired side carries the same N-token on
\* both lines and the two non-shared terminals carry distinct N-tokens, the
\* numbering being dense from N0001 in order of first appearance.
C5_Original ==
    \A j1, j2 \in 1..2 :
        pc = "done" /\ ScenarioC5(j1, j2) =>
           LET ls == CompLines IN
           /\ IsNTok(ls[1][j1 + 1]) /\ ls[1][j1 + 1] = ls[2][j2 + 1]
           /\ IsNTok(ls[1][(3 - j1) + 1]) /\ IsNTok(ls[2][(3 - j2) + 1])
           /\ ls[1][(3 - j1) + 1] # ls[2][(3 - j2) + 1]
           /\ DenseInOrder(NodeToksFrom(ls, 1))

\* C5 amended: in the scenario the wired side carries N0001 on both lines and
\* the two non-shared terminals, which dangle, are rendered NC.
C5_SharedNodeScenario ==
    \A j1, j2 \in 1..2 :
        pc = "done" /\ ScenarioC5(j1, j2) =>
           LET ls == CompLines IN
           /\ Len(ls) = 2
           /\ ls[1][j1 + 1] = <<"N", "0", "0", "0", "1">>
           /\ ls[2][j2 + 1] = <<"N", "0", "0", "0", "1">>
           /\ ls[1][(3 - j1) + 1] = TokNC
           /\ ls[2][(3 - j2) + 1] = TokNC

\* The scenario has been rendered, the wire standing in other holes of the
\* two shared buses than the resistors.
C5_Witness ==
    /\ pc = "done"
    /\ \E j1, j2 \in 1..2 : ScenarioC5(j1, j2)
    /\ wires[1][3][1] \notin { components[t[1]][3][t[2]] : t \in AllTerminals }

\* C6 as stated: generate_spice_netlist never ends in an error, and every
\* rendered component whose type tag is outside the prefix table (not -1 and
\* not 0..7) has a line that starts with the generic prefix U.
C6_UnknownTagRendersU ==
    LET ls == CompLines IN
    /\ pc # "raised"
    /\ \A k \in DOMAIN ls :
          components[k][1] \notin (-1)..7 => ls[k][1][1] = "U"
    /\ pc = "done" => Len(ls) = Len(components)

NameIndex(tok) == ParseNat(DigitSuffix(tok))

\* C9: on every rendered line the display index is 1 for a component with the
\* source tag -1, and for a component with tag t in 0..7 it is the number of
\* components with tag t up to and including it in input order; so two
\* non-source components of one type never carry the same prefix+index.
C9_DisplayIndex ==
    LET ls == CompLines IN
    \A k \in DOMAIN ls :
        LET t == components[k][1] IN
        /\ t = -1 => NameIndex(ls[k][1]) = 1
        /\ t \in 0..7 =>
              /\ NameIndex(ls[k][1])
                    = Cardinality({ i \in 1..k : components[i][1] = t })
              /\ \A i \in 1..(k - 1) :
                    components[i][1] = t => ls[i][1] # ls[k][1]

\* A resistor, a capacitor and a second resistor are rendered R1, C1, R2.
C9_Witness ==
    /\ pc = "done"
    /\ Len(components) = 3
    /\ [k \in 1..3 |-> components[k][1]] = <<1, 2, 1>>
    /\ [k \in 1..3 |-> CompLines[k][1]] = << <<"R", "1">>, <<"C", "1">>, <<"R", "2">> >>


\* The buses the resolver maps: those of the wire endpoints and ground holes.
ResolverBuses == WireBuses \cup GroundBuses

\* The keys added by generate_spice_netlist: buses absent from the resolver's
\* mapping, each on a provisional id.
ProvisionalBuses == DOMAIN nodemap \ ResolverBuses

\* build_node_map has returned and the component terminals are mapped.
LegsMapped == pc \in {"render", "done", "raised"}

\* C12: the counter is strictly greater than every id of the mapping, after
\* every step of build_node_map and on its return, and still after the
\* terminals are mapped; so each provisional id given to a bus absent from the
\* resolver's mapping differs from every resolver id and from every other
\* provisional id, and is never 0.
C12_CounterAboveIds ==
    /\ counter >= 1
    /\ \A k \in DOMAIN nodemap : nodemap[k] < counter
    /\ LegsMapped =>
          \A b \in ProvisionalBuses :
              /\ nodemap[b] # 0
              /\ \A k \in (DOMAIN nodemap) \ {b} : nodemap[k] # nodemap[b]

\* A netlist is out in which two buses got provisional ids beside a wired
\* pair on a non-zero resolver id.
C12_Witness ==
    /\ pc = "done"
    /\ Cardinality(ProvisionalBuses) >= 2
    /\ \E k \in ResolverBuses : nodemap[k] >= 1
    /\ counter = 4


\* The pairs of buses joined by a wire.
WireEdges == { {WireBus(i, 1), WireBus(i, 2)} : i \in DOMAIN wires }

\* Bus b is reached from bus a through a chain of wires.
WireConnected(a, b) == b \in ClosureOver({a}, WireEdges)

\* The component terminals whose line is in the netlist text so far.
RenderedTerminals == { t \in AllTerminals : t[1] <= Len(CompLines) }

\* The node token rendered for terminal t = <<component index, foot index>>.
TokenOf(t) == CompLines[t[1]][t[2] + 1]

\* build_node_map has returned: nodemap is the mapping handed to rendering,
\* before or after the component terminals are added to it.
MappingReturned == pc \in {"returned", "render", "done", "raised"}

\* C13: no spurious merges.  In the mapping used for rendering two distinct
\* buses share a non-zero id only if a chain of wires connects them, and a bus
\* maps to 0 only if it is the bus of a ground hole or wire-connected to one;
\* so two component terminals render the same N-token only when their buses
\* are the same or wire-connected, and a terminal renders 0 only when its bus
\* is grounded.
C13_NoSpuriousMerges ==
    MappingReturned =>
        LET ls == CompLines
            rendered == { t \in AllTerminals : t[1] <= Len(ls) }
            tok == [t \in rendered |-> ls[t[1]][t[2] + 1]]
            bus == [t \in rendered |-> FootBus(t[1], t[2])]
            edges == WireEdges
            grounded == GroundReach
        IN  /\ \A a, b \in DOMAIN nodemap :
                  (a # b /\ nodemap[a] = nodemap[b] /\ nodemap[a] # 0)
                      => b \in ClosureOver({a}, edges)
            /\ \A a \in DOMAIN nodemap : nodemap[a] = 0 => a \in grounded
            /\ \A t, u \in rendered :
                  (IsNTok(tok[t]) /\ tok[t] = tok[u])
                      => \/ bus[t] = bus[u]
                         \/ bus[u] \in ClosureOver({bus[t]}, edges)
            /\ \A t \in rendered : tok[t] = TokGround => bus[t] \in grounded

\* A netlist is out in which two terminals on distinct wired buses render one
\* N-token while a terminal on a bus no wire reaches renders another N-token.
C13_Witness ==
    /\ pc = "done"
    /\ \E t, u, v \in RenderedTerminals :
          /\ FootBus(t[1], t[2]) # FootBus(u[1], u[2])
          /\ IsNTok(TokenOf(t))
          /\ TokenOf(t) = TokenOf(u)
          /\ IsNTok(TokenOf(v))
          /\ TokenOf(v) # TokenOf(t)
          /\ ~WireConnected(FootBus(v[1], v[2]), FootBus(t[1], t[2]))

=============================================================================
